---- MODULE Spec2Model ----
(***************************************************************************)
(* A model of js-lock (src/Lock.js): the Lock class with its locked flag   *)
(* and its queue of task triggers, Lock.prototype.lock and Lock.all.       *)
(*                                                                         *)
(* JavaScript runs one job (a call from the host, a timer callback, a      *)
(* promise continuation) to completion before the next one starts, so      *)
(* every action below is one job: the synchronous code from the point      *)
(* where the job starts to the point where every async function it runs    *)
(* has suspended at an await or settled.                                   *)
(***************************************************************************)
EXTENDS Integers, Sequences, FiniteSets, TLC

\* Bounds of the model.
NumLocks == 2
MaxCalls == 3
MaxTimeout == 2

Locks == 1..NumLocks
Calls == 1..MaxCalls
Timeouts == 0..MaxTimeout

\* Elapsed times are counted up to MaxElapsed; a count of MaxElapsed stands
\* for every time from MaxElapsed on, none of them shorter than any timeout.
MaxElapsed == MaxTimeout

\* Lock names are strings, written here as sequences of UTF-16 code units.
\* "b", "a", "ab" / "2", "1", "10" / "a", "a", "b" (two locks of one name).
NameChoices ==
  { << <<98>>, <<97>>, <<97, 98>> >>,
    << <<50>>, <<49>>, <<49, 48>> >>,
    << <<97>>, <<97>>, <<98>> >> }

VARIABLES
  name,             \* name[l]: this.name of lock l
  locked,           \* locked[l]: this[PRIVATE.locked]
  taskTriggerQueue, \* taskTriggerQueue[l]: this[PRIVATE.taskTriggerQueue]; an
                    \* entry is the call whose wait promise the trigger resolves
  timers,           \* the setTimeout callbacks that have not run yet
  order,            \* order[c]: the locks of call c in the order the sorts
                    \* of Lock.all leave them in
  pc,               \* pc[c]: where call c is
  held,             \* held[c]: the locks whose lock() frame of call c is
                    \* inside its try block (task invoked, finally not run)
  timeout,          \* timeout[c]: the timeout call c was made with
  curTimeout,       \* curTimeout[c]: timeout of the lock() call c is in
  elapsed,          \* elapsed[c]: Date.now() minus the time at which the
                    \* lock() call c is in was made (waitStart of Lock.all)
  result,           \* result[c]: how call c settled
  callOrder,        \* callOrder[l]: the calls in the order they called l.lock()
  startOrder,       \* startOrder[l]: the calls in the order l.lock() invoked
                    \* their task
  contended,        \* contended[l]: some lock() call found l locked
  released,         \* released[c]: the locks whose finally block call c has
                    \* run, in the order it ran them
  validated         \* the arguments of the call the validation was last
                    \* applied to on its own, and the error it threw

vars == <<name, locked, taskTriggerQueue, timers, order, pc, held, timeout,
          curTimeout, elapsed, result, callOrder, startOrder, contended,
          released, validated>>

----------------------------------------------------------------------------
\* Helpers.

\* The first argument alone, as if nothing bounded it from below.
MaxUnbounded(a, b) == a

\* Math.max
Max(a, b) == IF a >= b THEN a ELSE b

Range(s) == {s[i] : i \in 1..Len(s)}

Front(s) == SubSeq(s, 1, Len(s) - 1)

Last(s) == s[Len(s)]

\* The arrays of distinct Lock instances a caller can pass.
LockArrays ==
  {a \in UNION {[1..n -> Locks] : n \in 1..NumLocks} :
     \A i, j \in 1..Len(a) : i # j => a[i] # a[j]}

ArrayPermutations(arr) ==
  {s \in [1..Len(arr) -> Range(arr)] : Range(s) = Range(arr)}

IndexOf(arr, x) == CHOOSE i \in 1..Len(arr) : arr[i] = x

----------------------------------------------------------------------------
\* Array.prototype.sort with the comparator of Lock.all.

IsDigits(s) == Len(s) > 0 /\ \A i \in 1..Len(s) : s[i] \in 48..57

RECURSIVE Decimal(_)
Decimal(s) ==
  IF Len(s) = 0 THEN 0 ELSE 10 * Decimal(Front(s)) + (Last(s) - 48)

\* ToNumber of a string made of letters and decimal digits: the value of a
\* string of digits, NaN for any string with a letter in it.
ToNumber(s) ==
  IF IsDigits(s) THEN [nan |-> FALSE, val |-> Decimal(s)]
  ELSE [nan |-> TRUE, val |-> 0]

\* The comparator passed to sort: lock => lock.name. It reads its first
\* argument only and returns that lock's name.
CompareFn(x, y) == name[x]

\* SortCompare of the language: the comparator's result converted to a
\* number, NaN counting as +0.
SortCompare(x, y) ==
  LET v == ToNumber(CompareFn(x, y))
  IN IF v.nan THEN 0 ELSE v.val

\* Whether the comparator is a consistent comparison function for the
\* elements of arr.
ConsistentComparator(arr) ==
  LET S == Range(arr)
  IN /\ \A a \in S : SortCompare(a, a) = 0
     /\ \A a, b \in S : (SortCompare(a, b) = 0) = (SortCompare(b, a) = 0)
     /\ \A a, b \in S : (SortCompare(a, b) < 0) = (SortCompare(b, a) > 0)
     /\ \A a, b, c \in S :
          /\ (SortCompare(a, b) = 0 /\ SortCompare(b, c) = 0)
               => SortCompare(a, c) = 0
          /\ (SortCompare(a, b) < 0 /\ SortCompare(b, c) < 0)
               => SortCompare(a, c) < 0
          /\ (SortCompare(a, b) = 0 /\ SortCompare(b, c) < 0)
               => SortCompare(a, c) < 0
          /\ (SortCompare(a, b) < 0 /\ SortCompare(b, c) = 0)
               => SortCompare(a, c) < 0

\* The arrays locks.slice().sort(lock => lock.name) can return: the stable
\* sort by the comparator when the comparator is consistent, and an
\* implementation-defined order otherwise.
SortOutcomes(arr) ==
  IF ConsistentComparator(arr)
  THEN {s \in ArrayPermutations(arr) :
          \A i, j \in 1..Len(s) : i < j =>
            \/ SortCompare(s[i], s[j]) < 0
            \/ /\ SortCompare(s[i], s[j]) = 0
               /\ IndexOf(arr, s[i]) < IndexOf(arr, s[j])}
  ELSE ArrayPermutations(arr)

\* The orders in which Lock.all(arr, ...) asks for its locks: the first lock
\* of the sorted array, then the order of Lock.all on the rest of it.
RECURSIVE AcquisitionOrders(_)
AcquisitionOrders(arr) ==
  IF Len(arr) = 1 THEN {arr}
  ELSE UNION {{<<s[1]>> \o r : r \in AcquisitionOrders(Tail(s))} :
                s \in SortOutcomes(arr)}

----------------------------------------------------------------------------
\* The arguments of lock() and Lock.all, and their validation.

\* A timeout argument: a value that is a number or not, the number being
\* twice / 2 (so that 1.5 and -0.5 are arguments too).
NotANumber == [isNumber |-> FALSE, twice |-> 0]

Number(twice) == [isNumber |-> TRUE, twice |-> twice]

\* null / -1, -0.5, 1.5 / the timeouts 0 .. MaxTimeout.
TimeoutArgs ==
  {NotANumber} \cup {Number(k) : k \in {-2, -1, 3}}
               \cup {Number(2 * t) : t \in Timeouts}

\* (typeof timeout !== 'number') || (Math.floor(timeout) !== timeout)
TimeoutIsNoInteger(ta) ==
  ~ta.isNumber \/ 2 * (ta.twice \div 2) # ta.twice

\* timeout < 0
TimeoutIsNegative(ta) == ta.twice < 0

\* The value of a timeout argument that is an integer.
TimeoutValue(ta) == ta.twice \div 2

\* A locks argument: an array or not, with its entries; the entry NoLock is
\* a value that is no Lock instance.
NoLock == 0

LocksArgs ==
  {[isArray |-> FALSE, items |-> <<1>>],
   [isArray |-> TRUE, items |-> <<>>],
   [isArray |-> TRUE, items |-> <<1, NoLock>>]}
    \cup {[isArray |-> TRUE, items |-> a] : a \in LockArrays}

\* The receivers of lock().
Receivers == {[isArray |-> TRUE, items |-> <<l>>] : l \in Locks}

\* The validation of lock(): the error it throws, or "none".
LockValidation(isFunction, ta) ==
  IF ~isFunction THEN "TypeError"
  ELSE IF TimeoutIsNoInteger(ta) THEN "TypeError"
  ELSE IF TimeoutIsNegative(ta) THEN "RangeError"
  ELSE "none"

\* Lock.all with the timeout's range checked together with its type.
AllValidationRangeFirst(la, isFunction, ta) ==
  IF ~la.isArray THEN "TypeError"
  ELSE IF \E i \in 1..Len(la.items) : la.items[i] \notin Locks
  THEN "TypeError"
  ELSE IF ~isFunction THEN "TypeError"
  ELSE IF TimeoutIsNoInteger(ta) THEN "TypeError"
  ELSE IF TimeoutIsNegative(ta) THEN "RangeError"
  ELSE IF Len(la.items) = 0 THEN "RangeError"
  ELSE IF Cardinality({name[la.items[i]] : i \in 1..Len(la.items)})
            # Len(la.items)
  THEN "Error"
  ELSE "none"

\* The validation of Lock.all: the error it throws, or "none".
AllValidation(la, isFunction, ta) ==
  IF ~la.isArray THEN "TypeError"
  ELSE IF \E i \in 1..Len(la.items) : la.items[i] \notin Locks
  THEN "TypeError"
  ELSE IF ~isFunction THEN "TypeError"
  ELSE IF TimeoutIsNoInteger(ta) THEN "TypeError"
  ELSE IF Len(la.items) = 0 THEN "RangeError"
  ELSE IF Cardinality({name[la.items[i]] : i \in 1..Len(la.items)})
            # Len(la.items)
  THEN "Error"
  ELSE IF TimeoutIsNegative(ta) THEN "RangeError"
  ELSE "none"

\* The validation of a call of method "lock" or "all".
Validation(method, la, isFunction, ta) ==
  IF method = "lock" THEN LockValidation(isFunction, ta)
  ELSE AllValidation(la, isFunction, ta)

ValidationErrors == {"TypeError", "RangeError", "Error"}

----------------------------------------------------------------------------
\* The state the operations of a job work on.

World ==
  [locked |-> locked, queue |-> taskTriggerQueue, timers |-> timers,
   pc |-> pc, held |-> held, curTimeout |-> curTimeout,
   elapsed |-> elapsed, result |-> result, callOrder |-> callOrder,
   startOrder |-> startOrder, contended |-> contended,
   released |-> released, timeout |-> timeout]

SetWorld(w) ==
  /\ locked' = w.locked
  /\ taskTriggerQueue' = w.queue
  /\ timers' = w.timers
  /\ pc' = w.pc
  /\ held' = w.held
  /\ curTimeout' = w.curTimeout
  /\ elapsed' = w.elapsed
  /\ result' = w.result
  /\ callOrder' = w.callOrder
  /\ startOrder' = w.startOrder
  /\ contended' = w.contended
  /\ released' = w.released
  /\ timeout' = w.timeout

\* Call c has settled: nothing reads its timeout and its times any more.
Settle(w, c) ==
  [w EXCEPT !.pc[c] = "done", !.timeout[c] = 0, !.curTimeout[c] = 0,
            !.elapsed[c] = 0]

\* Whether the wait promise of call c on lock l is pending: c is suspended
\* at the await of l.lock().
Pending(w, c, l) ==
  w.pc[c] = "waiting" /\ order[c][Len(w.held[c]) + 1] = l

\* A trigger that continues lock() whatever the state of the wait promise.
TriggerAlways(w, c, l) == [w EXCEPT !.pc[c] = "granted"]

\* trigger(): the resolve function of the wait promise of call c on lock l.
\* It grants the lock to c when the promise is pending, and does nothing when
\* the promise has been rejected by its timer.
Trigger(w, c, l) ==
  IF Pending(w, c, l) THEN [w EXCEPT !.pc[c] = "granted"] ELSE w

\* Release as a slip would have it: the entry is taken from the queue and
\* its trigger is not called.
ReleaseForgetsWaiter(w, l) ==
  IF Len(w.queue[l]) # 0
  THEN [w EXCEPT !.queue[l] = Tail(@)]
  ELSE [w EXCEPT !.locked[l] = FALSE]

\* Release as a slip would have it: the flag is cleared although the lock is
\* handed to a waiter.
ReleaseClearsFlag(w, l) ==
  IF Len(w.queue[l]) # 0
  THEN Trigger([w EXCEPT !.queue[l] = Tail(@), !.locked[l] = FALSE],
               Head(w.queue[l]), l)
  ELSE [w EXCEPT !.locked[l] = FALSE]

\* Release as a slip would have it: pop() instead of shift().
ReleasePops(w, l) ==
  IF Len(w.queue[l]) # 0
  THEN Trigger([w EXCEPT !.queue[l] = Front(@)], Last(w.queue[l]), l)
  ELSE [w EXCEPT !.locked[l] = FALSE]

\* Release as a slip would have it: the flag is never cleared.
ReleaseKeepsFlag(w, l) ==
  IF Len(w.queue[l]) # 0
  THEN Trigger([w EXCEPT !.queue[l] = Tail(@)], Head(w.queue[l]), l)
  ELSE w

\* The body of the finally block of lock().
Release(w, l) ==
  IF Len(w.queue[l]) # 0
  THEN Trigger([w EXCEPT !.queue[l] = Tail(@)], Head(w.queue[l]), l)
  ELSE [w EXCEPT !.locked[l] = FALSE]

\* The finally block of the lock() frame of call c on lock l.
ReleaseBy(w, c, l) ==
  Release([w EXCEPT !.released[c] = Append(@, l)], l)

\* An unwinding that runs the finally block of the lock acquired first.
FinallyOutermostFirst(w, c) ==
  LET l == Head(w.held[c])
      w1 == ReleaseBy(w, c, l)
      rest == Tail(w.held[c])
      w2 == [w1 EXCEPT !.held[c] = rest]
  IN IF Len(rest) = 0 THEN Settle(w2, c)
     ELSE [w2 EXCEPT !.pc[c] = "unwinding"]

\* The lock() frame of call c on its innermost held lock leaves its try
\* block: the finally block runs and the promise of that lock() call settles.
Finally(w, c) ==
  LET l == Last(w.held[c])
      w1 == ReleaseBy(w, c, l)
      rest == Front(w.held[c])
      w2 == [w1 EXCEPT !.held[c] = rest]
  IN IF Len(rest) = 0 THEN Settle(w2, c)
     ELSE [w2 EXCEPT !.pc[c] = "unwinding"]

\* StartsTimer as a slip would have it: the timer is started for every wait.
StartsTimerAlways(t) == TRUE

\* Whether lock() starts a timer for its wait: if (timeout).
StartsTimer(t) == t # 0

\* The wait of lock(): the resolve function is queued and, for a timeout
\* other than 0, the timer is started.
Enqueue(w, c, l, t) ==
  [w EXCEPT !.queue[l] = Append(@, c),
            !.timers = IF StartsTimer(t)
                       THEN @ \cup {[call |-> c, lock |-> l]}
                       ELSE @,
            !.contended[l] = TRUE,
            !.pc[c] = "waiting"]

RECURSIVE RunTask(_, _, _, _)
RECURSIVE LockAll(_, _, _, _, _)

\* lock(task, t) of lock l, called by call c, after its validation.
LockMethod(w, c, ord, throws, l, t) ==
  LET w1 == [w EXCEPT !.curTimeout[c] = t, !.elapsed[c] = 0,
                      !.callOrder[l] = Append(@, c)]
  IN IF w1.locked[l]
     THEN Enqueue(w1, c, l, t)
     ELSE RunTask([w1 EXCEPT !.locked[l] = TRUE], c, ord, throws)

\* RunTask as a slip would have it: Lock.all passes the caller's task to the
\* first lock and never asks for the rest of the locks.
RunTaskForgetsRest(w, c, ord, throws) ==
  LET l == ord[Len(w.held[c]) + 1]
      w1 == [w EXCEPT !.held[c] = Append(@, l),
                      !.startOrder[l] = Append(@, c)]
  IN IF throws
     THEN Finally([w1 EXCEPT !.result[c] = "taskError"], c)
     ELSE [w1 EXCEPT !.pc[c] = "running"]

\* The try block of lock(): the task of the next lock of call c is invoked.
\* The task of the last lock is the caller's task, which throws or returns;
\* the task of every other lock is the function Lock.all passes, which calls
\* Lock.all for the rest of the locks with the time that remains.
RunTask(w, c, ord, throws) ==
  LET k == Len(w.held[c]) + 1
      l == ord[k]
      w1 == [w EXCEPT !.held[c] = Append(@, l),
                      !.startOrder[l] = Append(@, c)]
  IN IF k = Len(ord)
     THEN IF throws
          THEN Finally([w1 EXCEPT !.result[c] = "taskError"], c)
          ELSE [w1 EXCEPT !.pc[c] = "running"]
     ELSE LET timeWaited == w1.elapsed[c]
              remainingTime == Max(w1.curTimeout[c] - timeWaited, 1)
          IN LockAll(w1, c, ord, throws, remainingTime)

\* Lock.all(rest, task, t) after its validation, where rest is the part of
\* ord that call c does not hold yet.
LockAll(w, c, ord, throws, t) ==
  LockMethod(w, c, ord, throws, ord[Len(w.held[c]) + 1], t)

\* A timer whose reject settles the call again after the wait promise was
\* resolved.
RejectResolved(w, c, l) ==
  IF w.pc[c] \in {"waiting", "granted", "running"}
  THEN LET w1 == [w EXCEPT !.result[c] = "timeout"]
       IN IF Len(w.held[c]) = 0 THEN Settle(w1, c)
          ELSE [w1 EXCEPT !.pc[c] = "unwinding"]
  ELSE w

\* A timeout that rejects the wait promise inside the try block of lock():
\* the finally block runs for the caller that timed out.
RejectReleases(w, c, l) ==
  IF Pending(w, c, l)
  THEN LET w1 == ReleaseBy([w EXCEPT !.result[c] = "timeout"], c, l)
       IN IF Len(w.held[c]) = 0 THEN Settle(w1, c)
          ELSE [w1 EXCEPT !.pc[c] = "unwinding"]
  ELSE w

\* The callback of setTimeout: reject(new TimeoutError(...)). It rejects the
\* wait promise of call c on lock l when it is pending; lock() then throws
\* before its try block. It does nothing when the promise is settled.
Reject(w, c, l) ==
  IF Pending(w, c, l)
  THEN LET w1 == [w EXCEPT !.result[c] = "timeout"]
       IN IF Len(w.held[c]) = 0 THEN Settle(w1, c)
          ELSE [w1 EXCEPT !.pc[c] = "unwinding"]
  ELSE w

\* A call that takes the first lock of its array before it checks its
\* arguments.
FailAfterLocking(w, c, la, err) ==
  LET w1 == Settle([w EXCEPT !.result[c] = err], c)
  IN IF la.isArray /\ Len(la.items) > 0 /\ la.items[1] \in Locks
     THEN [w1 EXCEPT !.locked[la.items[1]] = TRUE]
     ELSE w1

\* The validation of call c with the locks la throws err: the promise of the
\* call is rejected with it.
Fail(w, c, la, err) == Settle([w EXCEPT !.result[c] = err], c)

----------------------------------------------------------------------------
\* The jobs.

Init ==
  /\ name \in {[l \in Locks |-> n[l]] : n \in NameChoices}
  /\ locked = [l \in Locks |-> FALSE]
  /\ taskTriggerQueue = [l \in Locks |-> <<>>]
  /\ timers = {}
  /\ order = [c \in Calls |-> <<>>]
  /\ pc = [c \in Calls |-> "idle"]
  /\ held = [c \in Calls |-> <<>>]
  /\ timeout = [c \in Calls |-> 0]
  /\ curTimeout = [c \in Calls |-> 0]
  /\ elapsed = [c \in Calls |-> 0]
  /\ result = [c \in Calls |-> "none"]
  /\ callOrder = [l \in Locks |-> <<>>]
  /\ startOrder = [l \in Locks |-> <<>>]
  /\ contended = [l \in Locks |-> FALSE]
  /\ released = [c \in Calls |-> <<>>]
  /\ validated = [method |-> "none", locks |-> [isArray |-> FALSE, items |-> <<>>],
                  isFunction |-> FALSE, timeout |-> NotANumber,
                  error |-> "none"]

\* A caller calls lock.lock(task, timeout) on the lock of la (method "lock")
\* or Lock.all(locks, task, timeout) with the array la (method "all");
\* isFunction tells whether the task is a function, and throws whether the
\* task throws when it is invoked in this job. Calls are numbered in the
\* order they are made.
Call(c, method, la, isFunction, ta, throws) ==
  /\ pc[c] = "idle"
  /\ \A d \in Calls : d < c => pc[d] # "idle"
  /\ method = "lock" => la \in Receivers
  /\ throws => isFunction
  /\ LET err == Validation(method, la, isFunction, ta)
     IN IF err # "none"
        THEN /\ SetWorld(Fail(World, c, la, err))
             /\ UNCHANGED order
        ELSE \E ord \in AcquisitionOrders(la.items) :
               /\ order' = [order EXCEPT ![c] = ord]
               /\ SetWorld(LockAll([World EXCEPT
                                     !.timeout[c] = TimeoutValue(ta)],
                                   c, ord, throws, TimeoutValue(ta)))
  /\ UNCHANGED <<name, validated>>

\* The continuation of lock() after its wait promise was resolved; throws
\* tells whether the caller's task throws when it is invoked in this job.
Resume(c, throws) ==
  /\ pc[c] = "granted"
  /\ SetWorld(RunTask(World, c, order[c], throws))
  /\ UNCHANGED <<name, order, validated>>

\* The promise of the caller's task settles (outcome) and lock() of the
\* last lock continues after await task().
Complete(c, outcome) ==
  /\ pc[c] = "running"
  /\ SetWorld(Finally([World EXCEPT !.result[c] = outcome], c))
  /\ UNCHANGED <<name, order, validated>>

\* The inner Lock.all has settled and lock() of the innermost held lock
\* continues after await task().
Unwind(c) ==
  /\ pc[c] = "unwinding"
  /\ SetWorld(Finally(World, c))
  /\ UNCHANGED <<name, order, validated>>

\* A timer callback runs. The timer of a pending wait runs no earlier than
\* its timeout after it was started.
TimerFire(tm) ==
  /\ tm \in timers
  /\ Pending(World, tm.call, tm.lock)
       => elapsed[tm.call] >= curTimeout[tm.call]
  /\ SetWorld(Reject([World EXCEPT !.timers = @ \ {tm}], tm.call, tm.lock))
  /\ UNCHANGED <<name, order, validated>>

\* A millisecond passes for the calls that are waiting for a lock.
Waiting(c) == pc[c] \in {"waiting", "granted"}

Tick ==
  /\ \E c \in Calls : Waiting(c) /\ elapsed[c] < MaxElapsed
  /\ elapsed' = [c \in Calls |->
                   IF Waiting(c) /\ elapsed[c] < MaxElapsed
                   THEN elapsed[c] + 1 ELSE elapsed[c]]
  /\ UNCHANGED <<name, locked, taskTriggerQueue, timers, order, pc, held,
                 timeout, curTimeout, result, callOrder, startOrder,
                 contended, released, validated>>

Next ==
  \/ \E c \in Calls :
       /\ pc[c] = "idle"
       /\ \E method \in {"lock", "all"}, la \in LocksArgs,
             isFunction \in BOOLEAN, ta \in TimeoutArgs, throws \in BOOLEAN :
            Call(c, method, la, isFunction, ta, throws)
  \/ \E c \in Calls, throws \in BOOLEAN : Resume(c, throws)
  \/ \E c \in Calls, outcome \in {"ok", "taskError"} : Complete(c, outcome)
  \/ \E c \in Calls : Unwind(c)
  \/ \E tm \in timers : TimerFire(tm)
  \/ Tick

Spec == Init /\ [][Next]_vars

\* The same program with locks whose names have no digit in them, for which
\* the language fixes the outcome of the sort.
InitLetters == Init /\ \A l \in Locks : ~IsDigits(name[l])

SpecLetters == InitLetters /\ [][Next]_vars

\* The validation on its own: a caller passes arguments to lock() or
\* Lock.all, and the error the validation throws is recorded with them.
Validate(method, la, isFunction, ta) ==
  /\ method = "lock" => la \in Receivers
  /\ validated' = [method |-> method, locks |-> la,
                   isFunction |-> isFunction, timeout |-> ta,
                   error |-> Validation(method, la, isFunction, ta)]
  /\ UNCHANGED <<name, locked, taskTriggerQueue, timers, order, pc, held,
                 timeout, curTimeout, elapsed, result, callOrder, startOrder,
                 contended, released>>

NextValidation ==
  \E method \in {"lock", "all"}, la \in LocksArgs, isFunction \in BOOLEAN,
     ta \in TimeoutArgs :
    Validate(method, la, isFunction, ta)

SpecValidation == Init /\ [][NextValidation]_vars

\* The program with callers that only call lock(task, 0) with tasks that
\* terminate: no timer is started and no Lock.all frame unwinds, so the jobs
\* are the calls, the continuations of lock() and the time that passes.
\* Every continuation whose promise has settled runs (the microtask queue
\* is drained), and every task settles.
NextProgress ==
  \/ \E c \in Calls :
       /\ pc[c] = "idle"
       /\ \E la \in Receivers, throws \in BOOLEAN :
            Call(c, "lock", la, TRUE, Number(0), throws)
  \/ \E c \in Calls, throws \in BOOLEAN : Resume(c, throws)
  \/ \E c \in Calls, outcome \in {"ok", "taskError"} : Complete(c, outcome)
  \/ Tick

Fairness ==
  \A c \in Calls :
    /\ WF_vars(\E throws \in BOOLEAN : Resume(c, throws))
    /\ WF_vars(\E outcome \in {"ok", "taskError"} : Complete(c, outcome))

SpecProgress == Init /\ [][NextProgress]_vars /\ Fairness

----------------------------------------------------------------------------
\* Vocabulary of the properties.

\* Call c is inside the task l.lock() invoked for it.
InTask(c, l) == l \in Range(held[c])

\* Call c is suspended in l.lock(), waiting to be granted l.
WaitsFor(c, l) == Pending(World, c, l)

\* The wait promise of call c on l was resolved and lock() has not continued.
GrantedTo(c, l) ==
  pc[c] = "granted" /\ order[c][Len(held[c]) + 1] = l

TimedOut(c) == result[c] = "timeout"

IsPrefix(s, t) == Len(s) <= Len(t) /\ SubSeq(t, 1, Len(s)) = s

\* The lock() frame of call c on lock l runs its finally block in this step,
\* in a job of its own.
Releases(c, l) ==
  /\ Len(held[c]) > 0
  /\ Last(held[c]) = l
  /\ held'[c] = Front(held[c])

\* The waiters of l whose wait promise is pending, in queue order.
LiveWaiters(l) ==
  SelectSeq(taskTriggerQueue[l], LAMBDA c : WaitsFor(c, l))

----------------------------------------------------------------------------
\* C1. Mutual exclusion: at any instant at most one call is inside a task
\* granted by a given lock, whatever calls time out and whatever tasks fail.
C1_MutualExclusion ==
  \A l \in Locks : \A c, d \in Calls :
    (InTask(c, l) /\ InTask(d, l)) => c = d

\* A call is inside its task on a lock another call waits for, after a third
\* call timed out.
C1_Witness ==
  \E l \in Locks : \E c, d, e \in Calls :
    /\ InTask(c, l)
    /\ WaitsFor(d, l)
    /\ TimedOut(e)
    /\ e \in Range(callOrder[l])

\* C2. FIFO grant order: on a lock none of whose callers timed out, the
\* tasks were started in the order in which lock() was called.
C2_FifoOrder ==
  \A l \in Locks :
    (\A c \in Range(callOrder[l]) : ~TimedOut(c))
      => IsPrefix(startOrder[l], callOrder[l])

\* Three calls have run their tasks on one lock, two of them after waiting
\* in its queue together.
C2_Witness ==
  \E l \in Locks :
    /\ Len(startOrder[l]) >= 3
    /\ contended[l]
    /\ \A c \in Range(callOrder[l]) : ~TimedOut(c)

\* C3. After a waiter timed out on a held lock, the lock is free again once
\* its holder has finished and no other caller waits: a lock that no call
\* holds, was granted or waits for is not locked.
C3_TimedOutWaiterLeavesLockFree ==
  \A l \in Locks :
    (/\ \E e \in Range(callOrder[l]) : TimedOut(e)
     /\ \A c \in Calls : ~InTask(c, l) /\ ~WaitsFor(c, l) /\ ~GrantedTo(c, l))
      => ~locked[l]

\* C4. A timeout affects only the caller that timed out: when the holder
\* releases a lock that callers still wait for, the earliest of them is
\* granted the lock, whatever entries of timed-out callers the queue holds.
C4_ReleaseGrantsEarliestWaiter ==
  [][\A c \in Calls : \A l \in Locks :
       (Releases(c, l) /\ Len(LiveWaiters(l)) > 0)
         => pc'[LiveWaiters(l)[1]] = "granted"]_vars

C6_TaskFailureReleases ==
  [][\A c \in Calls :
       (result[c] = "none" /\ result'[c] = "taskError")
         => LET l == Last(order'[c])
            IN IF Len(LiveWaiters(l)) = 0
               THEN ~locked'[l]
               ELSE pc'[LiveWaiters(l)[1]] = "granted"]_vars

\* s < t for two strings: the comparison of the language, by code units.
RECURSIVE LexLess(_, _)
LexLess(s, t) ==
  IF Len(t) = 0 THEN FALSE
  ELSE IF Len(s) = 0 THEN TRUE
  ELSE IF s[1] # t[1] THEN s[1] < t[1]
  ELSE LexLess(Tail(s), Tail(t))

\* C7. Lock.all asks for its locks in ascending lexicographic order of
\* their names, whatever the order of the array it was called with.
C7_AscendingNameOrder ==
  \A c \in Calls : \A i, j \in 1..Len(order[c]) :
    i < j => LexLess(name[order[c][i]], name[order[c][j]])

\* C8. No circular wait: no two calls each hold a lock the other waits for.
C8_NoCircularWait ==
  \A c, d \in Calls : \A x, y \in Locks :
    ~(InTask(c, x) /\ WaitsFor(c, y) /\ InTask(d, y) /\ WaitsFor(d, x))

\* C9. Lock.all holds every lock during the task: while the caller's task
\* runs every lock of the array is locked, and once the call has resolved
\* every lock of the array that no other call was made for is unlocked.
C9_AllLocksHeldDuringTask ==
  \A c \in Calls :
    /\ pc[c] = "running" => \A l \in Range(order[c]) : locked[l]
    /\ (pc[c] = "done" /\ result[c] = "ok")
         => \A l \in Range(order[c]) :
              (\A d \in Calls \ {c} : l \notin Range(order[d])) => ~locked[l]

\* A Lock.all call for every lock has resolved, having waited for one of
\* them, and a lock that only it asked for is unlocked.
C9_Witness ==
  \E c \in Calls :
    /\ Len(order[c]) = NumLocks
    /\ pc[c] = "done"
    /\ result[c] = "ok"
    /\ \E l \in Locks : contended[l]
    /\ \E l \in Locks :
         /\ \A d \in Calls \ {c} : l \notin Range(order[d])
         /\ ~locked[l]

\* C10. A lock() call with timeout 0 never times out: its wait has no
\* timer, and it stays queued until a release grants it the lock.
C10_ZeroTimeoutNeverTimesOut ==
  /\ [](\A c \in Calls : \A l \in Locks :
          (WaitsFor(c, l) /\ curTimeout[c] = 0)
            => [call |-> c, lock |-> l] \notin timers)
  /\ [][\A c \in Calls :
          (pc[c] = "waiting" /\ curTimeout[c] = 0)
            => (pc'[c] \in {"waiting", "granted"} /\ result'[c] = "none")]_vars

\* A call with timeout 0 was granted the lock after waiting longer than any
\* timeout.
C10_Witness ==
  \E c \in Calls :
    /\ pc[c] = "granted"
    /\ curTimeout[c] = 0
    /\ elapsed[c] = MaxElapsed

----------------------------------------------------------------------------
\* Whether call c has been made and its promise is not settled yet.
InProgress(c) == pc[c] \in {"waiting", "granted", "running", "unwinding"}

\* C11: a Lock.all call over two or more locks made with timeout 0 is never
\* rejected with a TimeoutError, however long any of its locks is held.
C11_AllZeroTimeoutNeverTimesOut ==
  \A c \in Calls :
    (InProgress(c) /\ Len(order[c]) >= 2 /\ timeout[c] = 0)
      => ~TimedOut(c)

\* The task passed to call c has been invoked.
TaskInvoked(c) ==
  Len(order[c]) > 0 /\ c \in Range(startOrder[Last(order[c])])

\* The locks call c acquired.
Acquired(c) == {l \in Locks : c \in Range(startOrder[l])}

\* The finally block that call c runs on l in this step frees l: l is
\* unlocked when no caller waits for it and is granted to the earliest
\* waiter otherwise.
ReleaseFrees(l) ==
  IF Len(LiveWaiters(l)) = 0 THEN ~locked'[l]
  ELSE pc'[LiveWaiters(l)[1]] = "granted"

\* No call that timed out had its task invoked.
TimedOutNeverInvoked ==
  \A c \in Calls : TimedOut(c) => ~TaskInvoked(c)

\* A call that timed out and has settled ran the finally block of every lock
\* it acquired.
TimedOutReleasedAll ==
  \A c \in Calls :
    (pc[c] = "done" /\ TimedOut(c)) => Acquired(c) = Range(released[c])

\* C12. Lock.all aborts cleanly when the wait for one of its locks times
\* out: the task is never invoked, the finally block of every lock acquired
\* before runs, and each of these locks is unlocked, or handed to its next
\* waiter, by it.
C12_AllAbortsCleanly ==
  /\ [](TimedOutNeverInvoked /\ TimedOutReleasedAll)
  /\ [][\A c \in Calls : \A l \in Locks :
          (TimedOut(c) /\ Releases(c, l)) => ReleaseFrees(l)]_vars

\* The validation of call c has thrown.
Rejected(c) == result[c] \in ValidationErrors

\* C13. Rejected calls have no side effects: the job of a lock() or Lock.all
\* call whose validation throws leaves the locked flag and the waiter queue
\* of every lock as they were, starts no timer, and the task of such a call
\* is never invoked.
C13_RejectedCallHasNoEffect ==
  /\ [](\A c \in Calls : Rejected(c) =>
          /\ \A l \in Locks : c \notin Range(startOrder[l])
          /\ \A l \in Locks : c \notin Range(taskTriggerQueue[l])
          /\ held[c] = <<>> /\ released[c] = <<>>)
  /\ [][\A c \in Calls :
          (pc[c] = "idle" /\ result'[c] \in ValidationErrors)
            => /\ locked' = locked
               /\ taskTriggerQueue' = taskTriggerQueue
               /\ timers' = timers
               /\ startOrder' = startOrder]_vars

\* A call was rejected while another call held a lock and a third waited
\* for it.
C13_Witness ==
  \E c, d, e \in Calls : \E l \in Locks :
    /\ Rejected(c)
    /\ InTask(d, l)
    /\ WaitsFor(e, l)
    /\ d < c /\ e < c

\* The number of entries of the sequence s that are x.
Count(s, x) == Cardinality({i \in 1..Len(s) : s[i] = x})

\* C15. Release iff acquired: the finally block of a lock() call runs
\* exactly once when the call was granted the lock, and never when the call
\* timed out waiting for the lock or failed validation.
C15_ReleaseIffAcquired ==
  \A c \in Calls : \A l \in Locks :
    /\ Count(released[c], l) <= 1
    /\ l \in Range(released[c]) => l \in Acquired(c)
    /\ (pc[c] = "done" /\ l \in Acquired(c)) => Count(released[c], l) = 1
    /\ Rejected(c) => released[c] = <<>>

\* One call acquired its first lock, timed out waiting for its second lock
\* and released the first; another call was granted a lock after a wait and
\* released it; a third failed validation.
C15_Witness ==
  \E c, d, e \in Calls :
    /\ pc[c] = "done" /\ TimedOut(c)
    /\ Len(order[c]) = 2 /\ released[c] = <<order[c][1]>>
    /\ pc[d] = "done" /\ result[d] = "ok" /\ Len(released[d]) = 1
    /\ Rejected(e)

\* C16. Whenever the waiter queue of a lock is not empty the lock is locked,
\* and a release that finds the queue not empty takes its earliest entry and
\* leaves the lock locked.
C16_QueuedImpliesLocked ==
  /\ [](\A l \in Locks : Len(taskTriggerQueue[l]) > 0 => locked[l])
  /\ [][\A c \in Calls : \A l \in Locks :
          (Releases(c, l) /\ Len(taskTriggerQueue[l]) > 0)
            => /\ locked'[l]
               /\ taskTriggerQueue'[l] = Tail(taskTriggerQueue[l])]_vars

\* A release has handed a lock to its earliest waiter while a later waiter
\* is still queued.
C16_Witness ==
  \E l \in Locks : \E c \in Calls :
    /\ GrantedTo(c, l)
    /\ Len(taskTriggerQueue[l]) > 0
    /\ released # [d \in Calls |-> <<>>]

\* C17. Exactly-once task execution: the task of a call is invoked at most
\* once, exactly once when the call was granted its locks and has settled
\* with the outcome of the task, and never when the call was rejected with a
\* TimeoutError, even after a release has taken its stale entry from the
\* queue and triggered it.
C17_TaskExactlyOnce ==
  \A c \in Calls :
    /\ \A l \in Locks : Count(startOrder[l], c) <= 1
    /\ (pc[c] = "done" /\ result[c] \in {"ok", "taskError"})
         => Count(startOrder[Last(order[c])], c) = 1
    /\ TimedOut(c) => ~TaskInvoked(c)

\* A call timed out waiting for a lock, a release took its stale entry from
\* the queue, and the call that released has settled.
C17_Witness ==
  \E c, d \in Calls : \E l \in Locks :
    /\ pc[c] = "done" /\ TimedOut(c) /\ order[c] = <<l>>
    /\ c \notin Range(taskTriggerQueue[l])
    /\ pc[d] = "done" /\ l \in Range(released[d])
    /\ locked[l]

\* C18. The loser of the race between wake and timer is a no-op: when the
\* timer of a waiter fires after a release has woken the waiter, the step
\* changes neither the call nor any lock; a call that was granted its last
\* lock is not rejected with a TimeoutError.
C18_LateTimerIsNoOp ==
  /\ [][\A tm \in timers :
          (tm \notin timers' /\ ~WaitsFor(tm.call, tm.lock))
            => UNCHANGED <<locked, taskTriggerQueue, pc, held, result,
                           released, startOrder, curTimeout, elapsed>>]_vars
  /\ [][\A c \in Calls :
          (pc[c] = "running" \/ GrantedTo(c, Last(order[c])))
            => result'[c] # "timeout"]_vars

\* A call that waited for its lock with a timer runs its task, and its
\* timer has fired.
C18_Witness ==
  \E c \in Calls :
    /\ pc[c] = "running"
    /\ Len(order[c]) = 1
    /\ curTimeout[c] # 0
    /\ elapsed[c] > 0
    /\ [call |-> c, lock |-> order[c][1]] \notin timers

\* The sequence s backwards.
Reverse(s) == [i \in 1..Len(s) |-> s[Len(s) + 1 - i]]

\* C19. Lock.all releases its locks in the reverse of the order it acquired
\* them, whether the task succeeded or failed or a wait timed out: the locks
\* a call still holds, followed by the locks it released taken backwards,
\* are the locks it acquired in the order it acquired them.
C19_ReleaseInReverseOrder ==
  \A c \in Calls :
    /\ IsPrefix(held[c] \o Reverse(released[c]), order[c])
    /\ Range(held[c] \o Reverse(released[c])) = Acquired(c)
    /\ (pc[c] = "done" /\ result[c] \in {"ok", "taskError"})
         => released[c] = Reverse(order[c])

\* A call over two locks succeeded and another failed, and each has
\* released its two locks.
C19_Witness ==
  \E c, d \in Calls :
    /\ pc[c] = "done" /\ result[c] = "ok" /\ Len(released[c]) = 2
    /\ pc[d] = "done" /\ result[d] = "taskError" /\ Len(released[d]) = 2

\* Call c waits for, or was granted, the first lock of its array.
AtFirstLock(c) == pc[c] \in {"waiting", "granted"} /\ Len(held[c]) = 0

\* Call c has acquired a lock of an array of several locks and has not
\* settled: curTimeout[c] is the timeout its last recursive call received.
InRecursion(c) ==
  InProgress(c) /\ Len(order[c]) >= 2 /\ Acquired(c) # {}

----------------------------------------------------------------------------
\* Whether two entries of the array la are locks of one name.
HasDuplicateNames(la) ==
  /\ la.isArray
  /\ \A i \in 1..Len(la.items) : la.items[i] \in Locks
  /\ \E i, j \in 1..Len(la.items) :
       i # j /\ name[la.items[i]] = name[la.items[j]]

\* C14 as stated: Lock.all with an array of locks two of which share a name
\* fails with the plain Error of the duplicate names, whatever the task and
\* the timeout passed with it.
C14_DuplicateNamesAlwaysError ==
  (validated.method = "all" /\ HasDuplicateNames(validated.locks))
    => validated.error = "Error"

\* C14 amended: Lock.all with an array of locks two of which share a name
\* fails with the plain Error of the duplicate names for every task that is
\* a function and every timeout that is an integer, negative ones included.
C14_DuplicateNamesError ==
  (/\ validated.method = "all"
   /\ HasDuplicateNames(validated.locks)
   /\ validated.isFunction
   /\ ~TimeoutIsNoInteger(validated.timeout))
    => validated.error = "Error"

C14_Witness ==
  /\ validated.method = "all"
  /\ HasDuplicateNames(validated.locks)
  /\ validated.isFunction
  /\ validated.timeout = Number(-2)
  /\ validated.error = "Error"

----------------------------------------------------------------------------
\* Call c is a lock() call on l that has been made and has not settled.
InProgressOn(c, l) == InProgress(c) /\ order[c] = <<l>>

\* With the callers of NextProgress no timer is pending and no call unwinds:
\* the jobs NextProgress leaves out are never enabled.
NoTimerNoUnwind ==
  timers = {} /\ \A c \in Calls : pc[c] # "unwinding"

\* C21. Progress without timeouts: when every call is a lock() call with
\* timeout 0 whose task terminates, every call that is made is eventually
\* granted its lock and settles with the outcome of its task, and whenever
\* no call on a lock is in progress the lock is unlocked and its waiter
\* queue is empty.
C21_ProgressWithoutTimeouts ==
  /\ \A c \in Calls : \A l \in Locks :
       InProgressOn(c, l)
         ~> (/\ pc[c] = "done"
             /\ result[c] \in {"ok", "taskError"}
             /\ Count(startOrder[l], c) = 1)
  /\ [](\A l \in Locks :
          (\A c \in Calls : ~InProgressOn(c, l))
            => (~locked[l] /\ Len(taskTriggerQueue[l]) = 0))
  /\ []NoTimerNoUnwind

\* Every call was made on one lock, the later ones while it was held, and
\* all of them have settled.
C21_Witness ==
  \E l \in Locks :
    /\ \A c \in Calls : pc[c] = "done" /\ order[c] = <<l>>
    /\ startOrder[l] = [i \in 1..MaxCalls |-> i]
    /\ contended[l]
    /\ ~locked[l]

====
